---- MODULE Spec2Model ----
(***************************************************************************)
(* Model of the storefront admin configuration (store/admin.py,            *)
(* store_custom/admin.py) and of the playground view (playground/views.py).*)
(*                                                                         *)
(* State: the admin site's registry and the import machinery that fills it *)
(* while the admin modules are loaded, the relational tables the handlers  *)
(* read and write, and the last request served with what it produced.      *)
(***************************************************************************)
EXTENDS Integers, Sequences, FiniteSets, Bags

VARIABLES
    pending,      \* admin modules autodiscover still has to import, in order
    stack,        \* import call stack: frames [mod, line], innermost last
    sysModules,   \* names of the modules already in sys.modules
    registry,     \* admin.site._registry: model name -> admin class name
    loadError,    \* exception raised while loading the admin modules, or "none"
    products,     \* table store_product: id -> row
    orders,       \* table store_order: id -> row
    last,         \* the last request served: its inputs and its response
    messages      \* messages attached to the last request (request._messages)

vars == <<pending, stack, sysModules, registry, loadError, products, orders, last, messages>>

----------------------------------------------------------------------------
(* Bounds of the model *)

MaxProducts == 2
MaxOrders == 2

ProductIds == 1..MaxProducts
OrderIds == 1..MaxOrders
CollectionIds == {1, 2}
CustomerIds == {1, 2}
InventoryValues == {-1, 0, 9, 10}
Titles == {"Bread", "Milk"}
Prices == {5}

\* An optional value: <<>> is None, <<x>> is the value x
None == <<>>
Some(x) == <<x>>

----------------------------------------------------------------------------
(* Admin classes: class attributes, looked up through the class hierarchy *)

\* admin.ModelAdmin's own defaults for the attributes the subclasses set
ModelAdminDefaults ==
    [ actions |-> <<>>,
      list_display |-> <<"__str__">>,
      list_editable |-> <<>>,
      list_filter |-> <<>>,
      search_fields |-> <<>>,
      autocomplete_fields |-> <<>>,
      inlines |-> <<>> ]

\* class Sub(Base): the attributes of the class body shadow the inherited ones
Subclass(base, body) ==
    [a \in DOMAIN base \cup DOMAIN body |->
        IF a \in DOMAIN body THEN body[a] ELSE base[a]]

ProductAdmin ==
    Subclass(ModelAdminDefaults,
        [ autocomplete_fields |-> <<"collection">>,
          actions |-> <<"clear_inventory">>,
          list_display |-> <<"title", "unit_price", "inventory_status", "collection_title">>,
          list_editable |-> <<"unit_price">>,
          list_filter |-> <<"collection", "last_update", "InventoryFilter">>,
          search_fields |-> <<"title">> ])

CollectionAdmin ==
    Subclass(ModelAdminDefaults,
        [ list_display |-> <<"title", "products_count">>,
          search_fields |-> <<"title">> ])

CustomerAdmin ==
    Subclass(ModelAdminDefaults,
        [ list_display |-> <<"first_name", "last_name", "membership", "orders_count">>,
          list_editable |-> <<"membership">>,
          search_fields |-> <<"first_name__istartswith", "last_name__istartswith">> ])

OrderAdmin ==
    Subclass(ModelAdminDefaults,
        [ list_display |-> <<"id", "placed_at", "customer", "payment_status">>,
          inlines |-> <<"OrderItemInline">>,
          autocomplete_fields |-> <<"customer">> ])

CustomProductAdmin ==
    Subclass(ProductAdmin, [ inlines |-> <<"TagInline">> ])

AdminClass(name) ==
    CASE name = "ProductAdmin" -> ProductAdmin
      [] name = "CollectionAdmin" -> CollectionAdmin
      [] name = "CustomerAdmin" -> CustomerAdmin
      [] name = "OrderAdmin" -> OrderAdmin
      [] name = "CustomProductAdmin" -> CustomProductAdmin

Has(seq, x) == \E i \in 1..Len(seq) : seq[i] = x

----------------------------------------------------------------------------
(* The admin site's registry *)

\* admin.site.register(model, cls): AlreadyRegistered when the model has an admin
Register(reg, model, cls) ==
    IF model \in DOMAIN reg
    THEN [reg |-> reg, error |-> "AlreadyRegistered"]
    ELSE [reg |-> [m \in DOMAIN reg \cup {model} |-> IF m = model THEN cls ELSE reg[m]],
          error |-> "none"]

\* admin.site.unregister(model): NotRegistered when the model has no admin
Unregister(reg, model) ==
    IF model \notin DOMAIN reg
    THEN [reg |-> reg, error |-> "NotRegistered"]
    ELSE [reg |-> [m \in DOMAIN reg \ {model} |-> reg[m]], error |-> "none"]

\* store/admin.py without the decorator on ProductAdmin
StoreAdminRegistrations_NoProduct ==
    << [line |-> 64, model |-> "Collection", cls |-> "CollectionAdmin"],
       [line |-> 89, model |-> "Customer", cls |-> "CustomerAdmin"],
       [line |-> 126, model |-> "Order", cls |-> "OrderAdmin"] >>

\* The @admin.register decorators of store/admin.py, by line, in execution order
StoreAdminRegistrations ==
    << [line |-> 27, model |-> "Product", cls |-> "ProductAdmin"],
       [line |-> 64, model |-> "Collection", cls |-> "CollectionAdmin"],
       [line |-> 89, model |-> "Customer", cls |-> "CustomerAdmin"],
       [line |-> 126, model |-> "Order", cls |-> "OrderAdmin"] >>

AdminModules == {"store.admin", "store_custom.admin"}

\* Where the execution of an admin module starts: store/admin.py at the first
\* of its registrations, store_custom/admin.py at the import of its line 3
FirstLine(mod) == IF mod = "store.admin" THEN 1 ELSE 3

Top == stack[Len(stack)]
Pop == SubSeq(stack, 1, Len(stack) - 1)
Goto(line) == [stack EXCEPT ![Len(stack)].line = line]
Running(mod, line) ==
    /\ loadError = "none"
    /\ Len(stack) > 0
    /\ Top.mod = mod
    /\ Top.line = line

\* An exception propagates out of every import in progress: loading stops
Raise(error) ==
    /\ loadError' = error
    /\ stack' = <<>>
    /\ pending' = <<>>

\* The admin site serves requests once every admin module is loaded
Ready ==
    /\ loadError = "none"
    /\ stack = <<>>
    /\ pending = <<>>

\* autodiscover: import the admin module of the next installed app
Autodiscover ==
    /\ loadError = "none"
    /\ stack = <<>>
    /\ pending # <<>>
    /\ pending' = Tail(pending)
    /\ IF Head(pending) \in sysModules
       THEN UNCHANGED <<stack, sysModules>>
       ELSE /\ stack' = <<[mod |-> Head(pending), line |-> FirstLine(Head(pending))]>>
            /\ sysModules' = sysModules \cup {Head(pending)}
    /\ UNCHANGED <<registry, loadError, products, orders, last, messages>>

\* store/admin.py: one @admin.register per step, then the module is loaded
StoreAdminRegister ==
    \E i \in 1..Len(StoreAdminRegistrations) :
        /\ Running("store.admin", i)
        /\ LET r == StoreAdminRegistrations[i]
               res == Register(registry, r.model, r.cls)
           IN  IF res.error # "none"
               THEN Raise(res.error) /\ UNCHANGED registry
               ELSE /\ registry' = res.reg
                    /\ stack' = IF i = Len(StoreAdminRegistrations) THEN Pop ELSE Goto(i + 1)
                    /\ UNCHANGED <<pending, loadError>>
        /\ UNCHANGED <<sysModules, products, orders, last, messages>>

\* store_custom/admin.py line 3: from store.admin import ProductAdmin
StoreCustomImport ==
    /\ Running("store_custom.admin", 3)
    /\ IF "store.admin" \in sysModules
       THEN /\ stack' = Goto(18)
            /\ UNCHANGED sysModules
       ELSE /\ stack' = Append(Goto(18), [mod |-> "store.admin", line |-> FirstLine("store.admin")])
            /\ sysModules' = sysModules \cup {"store.admin"}
    /\ UNCHANGED <<pending, registry, loadError, products, orders, last, messages>>

\* store_custom/admin.py line 18: admin.site.unregister(Product)
StoreCustomUnregister ==
    /\ Running("store_custom.admin", 18)
    /\ LET res == Unregister(registry, "Product")
       IN  IF res.error # "none"
           THEN Raise(res.error) /\ UNCHANGED registry
           ELSE /\ registry' = res.reg
                /\ stack' = Goto(19)
                /\ UNCHANGED <<pending, loadError>>
    /\ UNCHANGED <<sysModules, products, orders, last, messages>>

\* store_custom/admin.py line 19: admin.site.register(Product, CustomProductAdmin)
StoreCustomRegister ==
    /\ Running("store_custom.admin", 19)
    /\ LET res == Register(registry, "Product", "CustomProductAdmin")
       IN  IF res.error # "none"
           THEN Raise(res.error) /\ UNCHANGED registry
           ELSE /\ registry' = res.reg
                /\ stack' = Pop
                /\ UNCHANGED <<pending, loadError>>
    /\ UNCHANGED <<sysModules, products, orders, last, messages>>

----------------------------------------------------------------------------
(* Tables *)

\* prepopulated_fields: the slug is filled in from the title
SlugOf(title) == IF title = "Bread" THEN "bread" ELSE "milk"

ProductRows ==
    {r \in [title : Titles, slug : {SlugOf(t) : t \in Titles}, unit_price : Prices,
            inventory : InventoryValues, collection : CollectionIds] :
        r.slug = SlugOf(r.title)}

\* Rows that differ in their collection only
PlainProductRows ==
    [title : {"Bread"}, slug : {"bread"}, unit_price : Prices, inventory : {10},
     collection : CollectionIds]

ProductTables == UNION {[ids -> ProductRows] : ids \in SUBSET ProductIds}
PlainProductTables == UNION {[ids -> PlainProductRows] : ids \in SUBSET ProductIds}
OrderTables == UNION {[ids -> [customer : CustomerIds]] : ids \in SUBSET OrderIds}

\* store_collection and store_customer: no handler of the repository writes them
CollectionTitle(c) == IF c = 1 THEN "Bakery" ELSE "Dairy"

----------------------------------------------------------------------------
(* The ORM operations the handlers call. A queryset over a table is the set *)
(* of primary keys it selects.                                              *)

\* queryset.filter(field__lt=n), queryset.filter(field__gte=n), filter(field=v)
FilterLt(table, queryset, field, n) == {p \in queryset : table[p][field] < n}
FilterGte(table, queryset, field, n) == {p \in queryset : table[p][field] >= n}
FilterExact(table, queryset, field, v) == {p \in queryset : table[p][field] = v}

\* update() reporting the rows whose value changed instead of the rows matched
QuerySetUpdate_Changed(table, queryset, field, value) ==
    [ table |-> [p \in DOMAIN table |->
                    IF p \in queryset THEN [table[p] EXCEPT ![field] = value] ELSE table[p]],
      count |-> Cardinality({p \in queryset \cap DOMAIN table : table[p][field] # value}) ]

\* queryset.update(field=value): one UPDATE over the selected rows; the result
\* is the number of rows matched
QuerySetUpdate(table, queryset, field, value) ==
    [ table |-> [p \in DOMAIN table |->
                    IF p \in queryset THEN [table[p] EXCEPT ![field] = value] ELSE table[p]],
      count |-> Cardinality(queryset \cap DOMAIN table) ]

\* only() that loads the key alone
Only_KeyOnly(table, fields) == {[f \in {"id"} |-> p] : p \in DOMAIN table}

\* Manager.only(*fields): instances with the named fields (and the key) loaded,
\* the others deferred. list(queryset) holds them in an unspecified order.
Only(table, fields) ==
    {[f \in fields \cup {"id"} |-> IF f = "id" THEN p ELSE table[p][f]] : p \in DOMAIN table}

\* An inner join: parents without a child have no row
LeftJoin_Inner(parents, children, fk) ==
    {[parent |-> x[1], child |-> Some(x[2])] :
        x \in {y \in parents \X DOMAIN children : children[y[2]][fk] = y[1]}}

\* parents LEFT OUTER JOIN children ON child.fk = parent.id
LeftJoin(parents, children, fk) ==
    {[parent |-> x[1], child |-> Some(x[2])] :
        x \in {y \in parents \X DOMAIN children : children[y[2]][fk] = y[1]}}
    \cup {[parent |-> c, child |-> None] :
        c \in {d \in parents : \A k \in DOMAIN children : children[k][fk] # d}}

\* queryset.annotate(n=Count(relation)): the join grouped by parent, counting
\* the joined rows whose child is not NULL; one row per group
AnnotateCount(parents, children, fk) ==
    LET joined == LeftJoin(parents, children, fk)
    IN  SetToBag({[id |-> g,
                   count |-> Cardinality({r \in joined : r.parent = g /\ r.child # None})] :
                  g \in {r.parent : r \in joined}})

----------------------------------------------------------------------------
(* store/admin.py *)

\* The filter with inventory__lte / inventory__gt in place of __lt / __gte
InventoryFilter_queryset_Lte(value, table, queryset) ==
    IF value = Some("<10") THEN FilterLt(table, queryset, "inventory", 11)
    ELSE IF value = Some(">=10") THEN FilterGte(table, queryset, "inventory", 11)
    ELSE queryset

\* InventoryFilter.queryset(request, queryset), with value = self.value()
InventoryFilter_queryset(value, table, queryset) ==
    IF value = Some("<10") THEN FilterLt(table, queryset, "inventory", 10)
    ELSE IF value = Some(">=10") THEN FilterGte(table, queryset, "inventory", 10)
    ELSE queryset

\* The status with <= in place of <
inventory_status_Lte(product) == IF product.inventory <= 10 THEN "Low" ELSE "OK"

\* ProductAdmin.inventory_status(product)
inventory_status(product) == IF product.inventory < 10 THEN "Low" ELSE "OK"

\* ProductAdmin.collection_title(product)
collection_title(product) == CollectionTitle(product.collection)

\* The message text: f"Inventory cleared for {updated_count} products."
ClearedText(updated_count) == <<"Inventory cleared for ", updated_count, " products.">>

\* self.message_user(request, message, level)
MessageUser(msgs, text, level) == Append(msgs, [level |-> level, text |-> text])

\* The action clearing only the rows that are low on stock
clear_inventory_LowOnly(table, queryset) ==
    LET res == QuerySetUpdate(table, FilterLt(table, queryset, "inventory", 10), "inventory", 0)
    IN  [ table |-> res.table,
          updated_count |-> Cardinality(queryset),
          messages |-> MessageUser(<<>>, ClearedText(Cardinality(queryset)), "ERROR") ]

\* The action updating the whole table instead of the selection
clear_inventory_AllRows(table, queryset) ==
    LET res == QuerySetUpdate(table, DOMAIN table, "inventory", 0)
    IN  [ table |-> res.table,
          updated_count |-> Cardinality(queryset),
          messages |-> MessageUser(<<>>, ClearedText(Cardinality(queryset)), "ERROR") ]

\* ProductAdmin.clear_inventory(request, queryset) on a request with no message yet
clear_inventory(table, queryset) ==
    LET res == QuerySetUpdate(table, queryset, "inventory", 0)
    IN  [ table |-> res.table,
          updated_count |-> res.count,
          messages |-> MessageUser(<<>>, ClearedText(res.count), "ERROR") ]

\* CollectionAdmin.get_queryset, CustomerAdmin.get_queryset
CollectionAdmin_get_queryset(table) == AnnotateCount(CollectionIds, table, "collection")
CustomerAdmin_get_queryset(table) == AnnotateCount(CustomerIds, table, "customer")

\* CollectionAdmin.products_count, CustomerAdmin.orders_count: the count as a
\* link to the related changelist filtered by the row's id
CountLink(urlName, param, row) ==
    [ url |-> urlName, param |-> param, id |-> row.id, text |-> row.count ]

----------------------------------------------------------------------------
(* playground/views.py *)

\* say_hello(request): what render() is given, with the query that was run
say_hello(table) ==
    [ template |-> "hello.html",
      query |-> [via |-> "orm", select |-> {"id", "title"}, from |-> "store_product"],
      context |-> [name |-> "Pardon", products |-> SetToBag(Only(table, {"id", "title"}))] ]

----------------------------------------------------------------------------
(* Requests served by the loaded site *)

FilterValues == {None, Some("<10"), Some(">=10"), Some("low")}
CollectionParams == {None} \cup {Some(c) : c \in CollectionIds}

Registered(model) == Ready /\ model \in DOMAIN registry
AdminOf(model) == AdminClass(registry[model])

\* One cell of the product changelist
ProductCell(product, column) ==
    CASE column = "inventory_status" -> inventory_status(product)
      [] column = "collection_title" -> collection_title(product)
      [] OTHER -> product[column]

Columns(cls) == {cls.list_display[i] : i \in 1..Len(cls.list_display)}

\* The product changelist: the filters of list_filter applied in order, then
\* one row of list_display cells per product left
ProductChangelist(collection, inventory) ==
    /\ Registered("Product")
    /\ LET cls == AdminOf("Product")
           all == DOMAIN products
           Q == IF Has(cls.list_filter, "collection") /\ collection # None
                THEN FilterExact(products, all, "collection", collection[1])
                ELSE all
           result == IF Has(cls.list_filter, "InventoryFilter")
                     THEN InventoryFilter_queryset(inventory, products, Q)
                     ELSE Q
       IN  last' = [ op |-> "product_changelist",
                     inventory |-> inventory,
                     Q |-> Q,
                     result |-> result,
                     rows |-> [p \in result |->
                                 [c \in Columns(cls) |-> ProductCell(products[p], c)]] ]
    /\ messages' = <<>>
    /\ UNCHANGED <<pending, stack, sysModules, registry, loadError, products, orders>>

\* The bulk action chosen on the product changelist for a set of selected rows
ClearInventory(queryset) ==
    /\ Registered("Product")
    /\ Has(AdminOf("Product").actions, "clear_inventory")
    /\ LET res == clear_inventory(products, queryset)
       IN  /\ products' = res.table
           /\ messages' = res.messages
           /\ last' = [ op |-> "clear_inventory",
                        queryset |-> queryset,
                        updated_count |-> res.updated_count ]
    /\ UNCHANGED <<pending, stack, sysModules, registry, loadError, orders>>

CollectionChangelist ==
    /\ Registered("Collection")
    /\ LET qs == CollectionAdmin_get_queryset(products)
       IN  last' = [ op |-> "collection_changelist",
                     queryset |-> qs,
                     cells |-> {CountLink("admin:store_product_changelist",
                                          "collection__id__exact", r) : r \in BagToSet(qs)} ]
    /\ messages' = <<>>
    /\ UNCHANGED <<pending, stack, sysModules, registry, loadError, products, orders>>

CustomerChangelist ==
    /\ Registered("Customer")
    /\ LET qs == CustomerAdmin_get_queryset(orders)
       IN  last' = [ op |-> "customer_changelist",
                     queryset |-> qs,
                     cells |-> {CountLink("admin:store_order_changelist",
                                          "customer__id__exact", r) : r \in BagToSet(qs)} ]
    /\ messages' = <<>>
    /\ UNCHANGED <<pending, stack, sysModules, registry, loadError, products, orders>>

\* The playground view; it does not go through the admin site
SayHello ==
    /\ Ready
    /\ last' = [ op |-> "say_hello", response |-> say_hello(products) ]
    /\ messages' = <<>>
    /\ UNCHANGED <<pending, stack, sysModules, registry, loadError, products, orders>>

----------------------------------------------------------------------------
(* Specifications *)

\* The two orders in which the installed apps can list store and store_custom
InstallOrders == {<<"store.admin", "store_custom.admin">>, <<"store_custom.admin", "store.admin">>}

InitLoader ==
    /\ pending \in InstallOrders
    /\ stack = <<>>
    /\ sysModules = {}
    /\ registry = <<>>
    /\ loadError = "none"
    /\ last = [op |-> "none"]
    /\ messages = <<>>

\* Any product table, no order placed yet
Init ==
    /\ InitLoader
    /\ products \in ProductTables
    /\ orders = <<>>

\* Any assignment of products to collections and of orders to customers
InitCounts ==
    /\ InitLoader
    /\ products \in PlainProductTables
    /\ orders \in OrderTables

Next ==
    \/ Autodiscover
    \/ StoreAdminRegister
    \/ StoreCustomImport
    \/ StoreCustomUnregister
    \/ StoreCustomRegister
    \/ \E c \in CollectionParams, v \in FilterValues : ProductChangelist(c, v)
    \/ \E queryset \in SUBSET DOMAIN products : ClearInventory(queryset)
    \/ CollectionChangelist
    \/ CustomerChangelist
    \/ SayHello

Spec == Init /\ [][Next]_vars

SpecCounts == InitCounts /\ [][Next]_vars

----------------------------------------------------------------------------
(* Properties *)

Multiplicity(bag, e) == IF e \in DOMAIN bag THEN bag[e] ELSE 0
RowsOf(table, fk, id) == {k \in DOMAIN table : table[k][fk] = id}

\* C1: after clear_inventory has run on a selection, every selected product
\* has inventory 0, whatever it had before.
C1_SelectedAreZero ==
    last.op = "clear_inventory" =>
        \A p \in last.queryset : p \in DOMAIN products /\ products[p].inventory = 0

C1_Witness ==
    /\ last.op = "clear_inventory"
    /\ Cardinality(last.queryset) >= 2

\* C2: loading the admin modules never raises; unregister(Product) always
\* finds Product registered to ProductAdmin, the register that follows finds
\* it unregistered, and the loaded site has Product registered to
\* CustomProductAdmin, which has every ProductAdmin setting and TagInline as
\* its only inline.
C2_LoadEndsInCustomProductAdmin ==
    /\ loadError = "none"
    /\ Running("store_custom.admin", 18) =>
          "Product" \in DOMAIN registry /\ registry["Product"] = "ProductAdmin"
    /\ Running("store_custom.admin", 19) => "Product" \notin DOMAIN registry
    /\ Ready =>
          /\ DOMAIN registry = {"Product", "Collection", "Customer", "Order"}
          /\ registry["Product"] = "CustomProductAdmin"
          /\ LET cls == AdminOf("Product")
             IN  /\ cls.list_display =
                        <<"title", "unit_price", "inventory_status", "collection_title">>
                 /\ cls.list_filter = <<"collection", "last_update", "InventoryFilter">>
                 /\ cls.search_fields = <<"title">>
                 /\ cls.actions = <<"clear_inventory">>
                 /\ cls.inlines = <<"TagInline">>
                 /\ \A a \in DOMAIN ProductAdmin \ {"inlines"} : cls[a] = ProductAdmin[a]

C2_Witness ==
    /\ Ready
    /\ sysModules = AdminModules
    /\ registry["Product"] = "CustomProductAdmin"

\* C3: the collection list has exactly one row per collection, whose
\* products_count is the number of products of that collection, and the
\* customer list exactly one row per customer, whose orders_count is the
\* number of orders of that customer; a collection or customer with none is
\* listed with count 0.
C3_CountsMatchRelatedRows ==
    /\ last.op = "collection_changelist" =>
          /\ {r.id : r \in BagToSet(last.queryset)} = CollectionIds
          /\ \A c \in CollectionIds :
                Multiplicity(last.queryset,
                    [id |-> c, count |-> Cardinality(RowsOf(products, "collection", c))]) = 1
          /\ BagCardinality(last.queryset) = Cardinality(CollectionIds)
    /\ last.op = "customer_changelist" =>
          /\ {r.id : r \in BagToSet(last.queryset)} = CustomerIds
          /\ \A c \in CustomerIds :
                Multiplicity(last.queryset,
                    [id |-> c, count |-> Cardinality(RowsOf(orders, "customer", c))]) = 1
          /\ BagCardinality(last.queryset) = Cardinality(CustomerIds)

C3_Witness ==
    /\ last.op = "customer_changelist"
    /\ \E r \in BagToSet(last.queryset) : r.count = 0
    /\ \E r \in BagToSet(last.queryset) : r.count = 2
    /\ \E c \in CollectionIds : RowsOf(products, "collection", c) = {}

\* C4: the inventory status of a listed product is "Low" exactly when its
\* inventory is below 10 and "OK" otherwise: 9, 0 and negative values show
\* "Low", 10 shows "OK", and nothing else is ever shown.
C4_StatusLowBelowTen ==
    last.op = "product_changelist" =>
        \A p \in DOMAIN last.rows :
            LET shown == last.rows[p]["inventory_status"]
                inv == products[p].inventory
            IN  /\ shown \in {"Low", "OK"}
                /\ shown = "Low" <=> inv < 10
                /\ inv \in {9, 0} \/ inv < 0 => shown = "Low"
                /\ inv = 10 => shown = "OK"

C4_Witness ==
    /\ last.op = "product_changelist"
    /\ \E p \in DOMAIN last.rows : products[p].inventory = 9
    /\ \E p \in DOMAIN last.rows : products[p].inventory = 10

C6_FilterPartitions ==
    /\ last.op = "product_changelist" =>
          /\ last.inventory = Some("<10") =>
                last.result = {p \in last.Q : products[p].inventory < 10}
          /\ last.inventory = Some(">=10") =>
                last.result = {p \in last.Q : products[p].inventory >= 10}
          /\ last.inventory \notin {Some("<10"), Some(">=10")} => last.result = last.Q
    /\ \A Q \in SUBSET DOMAIN products :
          LET low == InventoryFilter_queryset(Some("<10"), products, Q)
              ok == InventoryFilter_queryset(Some(">=10"), products, Q)
          IN  /\ low \cap ok = {}
              /\ low \cup ok = Q
              /\ \A p \in low : products[p].inventory < 10
              /\ \A p \in ok : products[p].inventory >= 10

C6_Witness ==
    /\ last.op = "product_changelist"
    /\ last.inventory = Some("<10")
    /\ last.result # {}
    /\ last.result # last.Q
    /\ \E p \in last.Q \ last.result : products[p].inventory = 10

\* C7: a run of clear_inventory leaves exactly one message, at level ERROR,
\* whose number is the size of the selection (products already at 0
\* included); a second run on the same selection leaves the table as the
\* first left it and reports the same number.
C7_OneMessageCountsSelection ==
    [][ last'.op = "clear_inventory" =>
          /\ Len(messages') = 1
          /\ messages'[1].level = "ERROR"
          /\ messages'[1].text =
                <<"Inventory cleared for ", Cardinality(last'.queryset), " products.">>
          /\ last'.updated_count = Cardinality(last'.queryset)
          /\ last'.updated_count >=
                Cardinality({p \in last'.queryset : products[p].inventory = 0})
          /\ (last.op = "clear_inventory" /\ last.queryset = last'.queryset) =>
                /\ products' = products
                /\ last'.updated_count = last.updated_count
                /\ messages' = messages ]_vars

C7_Witness ==
    /\ last.op = "clear_inventory"
    /\ last.updated_count = 2
    /\ messages = << [level |-> "ERROR",
                      text |-> <<"Inventory cleared for ", 2, " products.">>] >>

\* C8: a run of clear_inventory creates and deletes no product, leaves the
\* inventory of every unselected product and the title, unit_price, slug and
\* collection of every product as they were, and touches no other table;
\* with an empty selection nothing changes and the count reported is 0.
C8_OnlySelectedInventoryChanges ==
    [][ last'.op = "clear_inventory" =>
          /\ DOMAIN products' = DOMAIN products
          /\ \A p \in DOMAIN products :
                /\ p \notin last'.queryset => products'[p] = products[p]
                /\ \A f \in {"title", "unit_price", "slug", "collection"} :
                      products'[p][f] = products[p][f]
          /\ orders' = orders
          /\ registry' = registry
          /\ last'.queryset = {} =>
                /\ products' = products
                /\ last'.updated_count = 0 ]_vars

C8_Witness ==
    /\ last.op = "clear_inventory"
    /\ last.queryset # {}
    /\ \E p \in DOMAIN products \ last.queryset : products[p].inventory # 0

====
